---- MODULE Spec2Model ----
(***************************************************************************)
(* Model of the flowchart editor of src/script.js: the text-to-model       *)
(* parser (parse), the tree layout (layoutTree), the renderer (render) and *)
(* the two event handlers (onInput, the click handler of a drawn node).    *)
(*                                                                         *)
(* A text is a sequence of lines; a line is the sequence of the            *)
(* whitespace-separated tokens that remain after trim().                   *)
(***************************************************************************)
EXTENDS Integers, Sequences, FiniteSets, TLC

VARIABLES
    text,          \* editor.value, as a sequence of lines
    pending,       \* the debounce timer of the input listener is armed
    collapsed,     \* the module-level Set `collapsed`
    currentModel,  \* the module-level `currentModel`
    svg,           \* the children of the svg element
    status,        \* the status element: its text and colour
    result,        \* what the last call of parse produced
    layout         \* what the last call of layoutTree produced

vars == <<text, pending, collapsed, currentModel, svg, status, result, layout>>

----------------------------------------------------------------------------
(* Bounds of the model *)

\* longest text handed to parse in SpecParse
MaxLines == 3
\* most edge lines of a text laid out in SpecLayout
MaxEdges == 4

----------------------------------------------------------------------------
(* Program constants *)

NODE_W == 130
NODE_H == 46
X_GAP == 36
Y_GAP == 80

----------------------------------------------------------------------------
(* Small helpers on sequences and sets *)

Range(s) == {s[i] : i \in 1..Len(s)}

Contains(s, e) == \E i \in 1..Len(s) : s[i] = e

MinOf(S) == CHOOSE m \in S : \A y \in S : m <= y

MaxOf(S) == CHOOSE m \in S : \A y \in S : m >= y

\* the sequences over the set S of length at most n
SeqsUpTo(S, n) == UNION {[1..k -> S] : k \in 0..n}

----------------------------------------------------------------------------
(* JavaScript objects used as maps *)

\* Names every plain object {} inherits from Object.prototype: nodes[name] is
\* a truthy value for them although name is no own key of nodes.
ObjectPrototypeKeys == {"toString", "constructor", "valueOf", "hasOwnProperty", "__proto__"}

\* The value of a key that is a canonical array index (the one-digit ones are
\* all the texts here use), -1 for any other key.
IndexValue(k) ==
    CASE k = "0" -> 0 [] k = "1" -> 1 [] k = "2" -> 2 [] k = "3" -> 3
      [] k = "4" -> 4 [] k = "5" -> 5 [] k = "6" -> 6 [] k = "7" -> 7
      [] k = "8" -> 8 [] k = "9" -> 9 [] OTHER -> -1

\* An object with own keys: `keys` in insertion order, `val` their values.
EmptyObject == [keys |-> <<>>, val |-> <<>>]

\* !!obj[k]: an own key (whose value here is always an object) or an inherited one
Truthy(obj, k) == Contains(obj.keys, k) \/ k \in ObjectPrototypeKeys

\* obj[k], read for an own key
Get(obj, k) == LET i == CHOOSE i \in 1..Len(obj.keys) : obj.keys[i] = k IN obj.val[i]

\* obj[k] = v
Put(obj, k, v) ==
    IF Contains(obj.keys, k)
    THEN LET i == CHOOSE i \in 1..Len(obj.keys) : obj.keys[i] = k
         IN [obj EXCEPT !.val[i] = v]
    ELSE [keys |-> Append(obj.keys, k), val |-> Append(obj.val, v)]

RECURSIVE SortByIndex(_)
\* the keys of the set S (all array indices) in ascending numeric order
SortByIndex(S) ==
    IF S = {} THEN <<>>
    ELSE LET m == CHOOSE m \in S : \A y \in S : IndexValue(m) <= IndexValue(y)
         IN <<m>> \o SortByIndex(S \ {m})

\* Object.keys(obj): array-index keys ascending, then the others as inserted
ObjectKeys(obj) ==
    SortByIndex({k \in Range(obj.keys) : IndexValue(k) >= 0})
        \o SelectSeq(obj.keys, LAMBDA k : IndexValue(k) < 0)

----------------------------------------------------------------------------
(* parse: text -> {nodes, edges, root} | {error} *)

\* The quoted third token of a node line, with the closing quote optional.
QuotedTokens == {"\"Alpha\"", "\"Alpha", "\"\""}

\* match[2] of the node pattern: what stands between the quotes
Unquote(tok) == IF tok = "\"\"" THEN "" ELSE "Alpha"

\* line.startsWith(word + ' ') on a trimmed line: the word and something after it
StartsWith(line, word) == Len(line) >= 2 /\ line[1] = word

\* /^node\s+(\S+)\s+"([^"]*)"?$/
NodeMatch(line) == Len(line) = 3 /\ line[1] = "node" /\ line[3] \in QuotedTokens

\* /^edge\s+(\S+)\s*->\s*(\S+)$/
EdgeMatch(line) == Len(line) = 4 /\ line[1] = "edge" /\ line[3] = "->"

\* The values parse and the handlers pass around, in one record shape.
Outcome(kind, line, msg, id, nodes, edges, root) ==
    [kind |-> kind, line |-> line, msg |-> msg, id |-> id,
     nodes |-> nodes, edges |-> edges, root |-> root]

\* {error: `Line ${line}: ${msg} "${id}"`}
ErrorResult(line, msg, id) == Outcome("error", line, msg, id, EmptyObject, <<>>, "")

\* {nodes, edges, root}
ModelResult(nodes, edges, root) == Outcome("model", 0, "", "", nodes, edges, root)

\* parse left by an exception: a TypeError of reading .push of undefined
TypeErrorThrown == Outcome("TypeError", 0, "", "", EmptyObject, <<>>, "")

\* currentModel = null, and the result before any parse
Null == Outcome("null", 0, "", "", EmptyObject, <<>>, "")

\* {id, title: title || id, children: []}
NewNode(id, title) ==
    [id |-> id, title |-> IF title = "" THEN id ELSE title, children |-> <<>>]

\* if(nodes[id]) of the node branch: the id counts as declared already
DuplicateCheck(nodes, id) == Truthy(nodes, id)

RECURSIVE ScanLines(_, _, _, _)
\* the loop over the lines, from line lineNum on
ScanLines(lines, lineNum, nodes, edges) ==
    IF lineNum > Len(lines) THEN Outcome("scanned", 0, "", "", nodes, edges, "")
    ELSE LET line == lines[lineNum] IN
      IF Len(line) = 0 THEN ScanLines(lines, lineNum + 1, nodes, edges)
      ELSE IF StartsWith(line, "node") THEN
        IF ~NodeMatch(line) THEN ErrorResult(lineNum, "Bad Node Syntax", "")
        ELSE IF DuplicateCheck(nodes, line[2])
          THEN ErrorResult(lineNum, "Duplicate Node id", line[2])
        ELSE ScanLines(lines, lineNum + 1,
                       Put(nodes, line[2], NewNode(line[2], Unquote(line[3]))), edges)
      ELSE IF StartsWith(line, "edge") THEN
        IF ~EdgeMatch(line) THEN ErrorResult(lineNum, "Bad Edge Syntax", "")
        ELSE ScanLines(lines, lineNum + 1, nodes,
                       Append(edges, [from |-> line[2], to |-> line[4], line |-> lineNum]))
      ELSE ErrorResult(lineNum, "Unknown Directive", "")

\* if (!nodes[edge.from]) / if(!nodes[edge.to]) of the edge loop
EndpointKnown(nodes, id) == Truthy(nodes, id)

RECURSIVE ResolveEdges(_, _, _)
\* the loop over the edges, from edge i on
ResolveEdges(edges, i, nodes) ==
    IF i > Len(edges) THEN Outcome("resolved", 0, "", "", nodes, edges, "")
    ELSE LET edge == edges[i] IN
      IF ~EndpointKnown(nodes, edge.from)
        THEN ErrorResult(edge.line, "Unknown Node", edge.from)
      ELSE IF ~EndpointKnown(nodes, edge.to)
        THEN ErrorResult(edge.line, "unknown node", edge.to)
      ELSE IF ~Contains(nodes.keys, edge.from)
        \* nodes[edge.from] is inherited and has no children array
        THEN TypeErrorThrown
      ELSE LET node == Get(nodes, edge.from)
           IN ResolveEdges(edges, i + 1,
                  Put(nodes, edge.from,
                      [node EXCEPT !.children = Append(node.children, edge.to)]))

\* Object.keys(nodes).find(id => !targets.has(id)) || Object.keys(nodes)[0]
ChooseRoot(nodes, edges) ==
    LET targets == {edges[i].to : i \in 1..Len(edges)}
        keys == ObjectKeys(nodes)
        free == SelectSeq(keys, LAMBDA id : id \notin targets)
    IN IF Len(free) > 0 THEN free[1]
       ELSE IF Len(keys) > 0 THEN keys[1]
       ELSE ""

parse(lines) ==
    LET scanned == ScanLines(lines, 1, EmptyObject, <<>>) IN
    IF scanned.kind # "scanned" THEN scanned
    ELSE LET resolved == ResolveEdges(scanned.edges, 1, scanned.nodes) IN
      IF resolved.kind # "resolved" THEN resolved
      ELSE LET root == ChooseRoot(resolved.nodes, resolved.edges) IN
        IF root = "" THEN ErrorResult(0, "No Nodes Defined", "")
        ELSE ModelResult(resolved.nodes, resolved.edges, root)

----------------------------------------------------------------------------
(* layoutTree: model -> {coords, vis}, reading the global `collapsed` *)

\* A slot is a multiple of 1/SlotUnit (a midpoint halves at most once per
\* level of the tree); xPosition and coords.x are held in that unit.
SlotUnit == 2^6

\* nodes[id].children || [] : an inherited nodes[id] has no children
ChildrenOf(nodes, id) ==
    IF Contains(nodes.keys, id) THEN Get(nodes, id).children ELSE <<>>

\* visibleChildren without its test of the collapse set
visibleChildrenOfAll(id, nodes, coll) == ChildrenOf(nodes, id)

visibleChildren(id, nodes, coll) ==
    IF id \in coll THEN <<>> ELSE ChildrenOf(nodes, id)

\* The call stack holds one frame of firstPass per level; a chain of calls
\* longer than the number of keys (plus one inherited leaf) repeats an id,
\* recurses for ever and ends in the engine's RangeError.
StackExhausted(nodes, d) == d > Len(nodes.keys)

\* the leaf placement without the increment of the counter
PlaceLeafNoIncrement(st, id) ==
    [st EXCEPT !.xPosition = (id :> st.xPositionNext * SlotUnit) @@ st.xPosition]

\* xPosition.set(id, xPositionNext++)
PlaceLeaf(st, id) ==
    [st EXCEPT !.xPosition = (id :> st.xPositionNext * SlotUnit) @@ st.xPosition,
               !.xPositionNext = st.xPositionNext + 1]

\* the parent placed over its leftmost child instead of between the outermost
CentreAtLeftmost(xKidPositions) == MinOf(Range(xKidPositions))

\* (Math.min(...xKidPositions) + Math.max(...xKidPositions)) / 2
Centre(xKidPositions) ==
    (MinOf(Range(xKidPositions)) + MaxOf(Range(xKidPositions))) \div 2

\* xPosition.set(id, centre of the kids)
PlaceParent(st, id, kids) ==
    [st EXCEPT !.xPosition =
        (id :> Centre([i \in 1..Len(kids) |-> st.xPosition[kids[i]]])) @@ st.xPosition]

RECURSIVE firstPass(_, _, _, _, _)
RECURSIVE firstPassKids(_, _, _, _, _, _)
\* firstPass(id, d) on the maps st = (xPosition, xPositionNext, depth)
firstPass(nodes, coll, id, d, st) ==
    IF st.overflow THEN st
    ELSE IF StackExhausted(nodes, d) THEN [st EXCEPT !.overflow = TRUE]
    ELSE LET st1 == [st EXCEPT !.depth = (id :> d) @@ st.depth]
             kids == visibleChildren(id, nodes, coll)
         IN IF Len(kids) = 0 THEN PlaceLeaf(st1, id)
            ELSE LET st2 == firstPassKids(nodes, coll, kids, 1, d + 1, st1)
                 IN IF st2.overflow THEN st2 ELSE PlaceParent(st2, id, kids)

\* kids.forEach(k => firstPass(k, d+1)), from kid i on
firstPassKids(nodes, coll, kids, i, d, st) ==
    IF i > Len(kids) \/ st.overflow THEN st
    ELSE firstPassKids(nodes, coll, kids, i + 1, d,
                       firstPass(nodes, coll, kids[i], d, st))

RECURSIVE depthFirstSearch(_, _, _, _)
RECURSIVE depthFirstSearchKids(_, _, _, _, _)
\* depthFirstSearch(id) on the set vis
depthFirstSearch(nodes, coll, id, vis) ==
    IF id \in vis THEN vis
    ELSE depthFirstSearchKids(nodes, coll, visibleChildren(id, nodes, coll), 1,
                              vis \cup {id})

\* children(id).forEach(depthFirstSearch), from kid i on
depthFirstSearchKids(nodes, coll, kids, i, vis) ==
    IF i > Len(kids) THEN vis
    ELSE depthFirstSearchKids(nodes, coll, kids, i + 1,
                              depthFirstSearch(nodes, coll, kids[i], vis))

EmptyMap == [k \in {} |-> 0]

\* What layoutTree produces, in one record shape.
LayoutOutcome(kind, coords, vis) == [kind |-> kind, coords |-> coords, vis |-> vis]

\* before any call of layoutTree
NoLayout == LayoutOutcome("none", EmptyMap, {})

\* layoutTree left by the RangeError of an exhausted call stack
RangeErrorThrown == LayoutOutcome("RangeError", EmptyMap, {})

\* coords[id] = {x: xPosition.get(id) * (NODE_W + X_GAP), y: (depth.get(id) || 0) * (NODE_H + Y_GAP)}
Coordinates(st, id) ==
    [x |-> st.xPosition[id] * (NODE_W + X_GAP), y |-> st.depth[id] * (NODE_H + Y_GAP)]

layoutTree(model, coll) ==
    LET st == firstPass(model.nodes, coll, model.root, 0,
                        [xPosition |-> EmptyMap, xPositionNext |-> 0,
                         depth |-> EmptyMap, overflow |-> FALSE])
    IN IF st.overflow THEN RangeErrorThrown
       ELSE LET vis == depthFirstSearch(model.nodes, coll, model.root, {})
            IN LayoutOutcome("ok", [id \in vis |-> Coordinates(st, id)], vis)

----------------------------------------------------------------------------
(* render, drawNode, drawEdge, setStatus, clearSvg, mergeCollapseState *)

\* svg.innerHTML = ''
clearSvg == [nodes |-> {}, paths |-> {}]

\* status.textContent and the colour chosen by ok
setStatus(ok, msg, num, arg) == [ok |-> ok, msg |-> msg, num |-> num, arg |-> arg]

\* mergeCollapseState that deletes nothing
mergeCollapseStateKeepsAll(oldSet, newNodes) == oldSet

\* for(const id of Array.from(oldSet)) if(!newNodes[id]) oldSet.delete(id)
mergeCollapseState(oldSet, newNodes) == {id \in oldSet : Truthy(newNodes, id)}

\* model.nodes[id].title || id
TitleOf(nodes, id) == IF Contains(nodes.keys, id) THEN Get(nodes, id).title ELSE id

\* The group drawNode appends: its label, its place, and the childrenCount
\* and id its click listener closes over.
drawNode(id, title, x, y, childrenCount, coll) ==
    [id |-> id, title |-> title,
     mark |-> IF id \in coll THEN " [+]" ELSE IF childrenCount > 0 THEN " [-]" ELSE "",
     x |-> x, y |-> y, childrenCount |-> childrenCount]

\* The path drawEdge appends, by its first and last point.
drawEdge(parentX, parentY, childX, childY) ==
    [fromX |-> parentX + (NODE_W * SlotUnit) \div 2, fromY |-> parentY + NODE_H,
     toX |-> childX + (NODE_W * SlotUnit) \div 2, toY |-> childY]

\* The children of the svg element after render(model) returned.
Drawing(model, coll, lay) ==
    [paths |-> {drawEdge(lay.coords[e[1]].x, lay.coords[e[1]].y,
                         lay.coords[e[2]].x, lay.coords[e[2]].y) :
                   e \in {p \in lay.vis \X lay.vis :
                            Contains(ChildrenOf(model.nodes, p[1]), p[2])}},
     nodes |-> {drawNode(id, TitleOf(model.nodes, id), lay.coords[id].x, lay.coords[id].y,
                         Len(ChildrenOf(model.nodes, id)), coll) : id \in lay.vis}]

\* render(model): currentModel = model; clearSvg(); layoutTree; draw.  When
\* layoutTree throws, the svg stays cleared.
render(model, coll) ==
    LET lay == layoutTree(model, coll)
    IN /\ currentModel' = model
       /\ layout' = lay
       /\ svg' = IF lay.kind = "ok" THEN Drawing(model, coll, lay) ELSE clearSvg

----------------------------------------------------------------------------
(* The texts the user can have in the editor *)

NodeLine(id) == <<"node", id, "\"Alpha\"">>

EdgeLine(from, to) == <<"edge", from, "->", to>>

\* A document the user edits by deleting and restoring whole lines.
Document ==
    << NodeLine("A"), NodeLine("B"), <<"node", "C", "\"\"">>,
       EdgeLine("A", "B"), EdgeLine("B", "C"), EdgeLine("B", "A"), <<"oops">> >>

\* The lines of Document whose numbers are in keep, in their order; the
\* empty editor holds one empty line.
TextOf(keep) ==
    IF keep = {} THEN << <<>> >>
    ELSE LET F[i \in 0..Len(Document)] ==
                 IF i = 0 THEN <<>>
                 ELSE IF i \in keep THEN Append(F[i - 1], Document[i]) ELSE F[i - 1]
         IN F[Len(Document)]

Texts == {TextOf(keep) : keep \in SUBSET (1..Len(Document))}

----------------------------------------------------------------------------
(* The handlers *)

\* The user deletes or restores line i of the document; the listener (re)arms
\* the debounce timer.
Type(i) ==
    /\ text' = LET keep == {j \in 1..Len(Document) : Contains(text, Document[j])}
               IN TextOf(IF i \in keep THEN keep \ {i} ELSE keep \cup {i})
    /\ pending' = TRUE
    /\ UNCHANGED <<collapsed, currentModel, svg, status, result, layout>>

\* the error branch of onInput without its clearSvg()
ShowErrorOverDiagram(r) ==
    /\ status' = setStatus(FALSE, r.msg, r.line, r.id)
    /\ UNCHANGED <<svg, collapsed, currentModel, layout>>

\* if (result.error){ setStatus(false, result.error); clearSvg(); return; }
ShowError(r) ==
    /\ status' = setStatus(FALSE, r.msg, r.line, r.id)
    /\ svg' = clearSvg
    /\ UNCHANGED <<collapsed, currentModel, layout>>

\* The timer fires: onInput.  Its saveSource(editor.value) writes localStorage,
\* which is read only once, at load, to give the editor its first text (Init).
onInput ==
    /\ pending
    /\ pending' = FALSE
    /\ UNCHANGED text
    /\ LET r == parse(text) IN
       /\ result' = r
       /\ CASE r.kind = "error" -> ShowError(r)
            [] r.kind = "TypeError" ->
                 \* parse threw: nothing after it runs
                 UNCHANGED <<collapsed, currentModel, svg, status, layout>>
            [] OTHER ->
                 /\ collapsed' = mergeCollapseState(collapsed, r.nodes)
                 /\ status' = setStatus(TRUE, "Parsed Nodes", Len(r.nodes.keys), "")
                 /\ render(r, collapsed')

\* if (collapsed.has(id)) collapsed.delete(id); else collapsed.add(id)
Toggle(coll, id) == IF id \in coll THEN coll \ {id} ELSE coll \cup {id}

\* The click listener of the drawn node g.
Click(g) ==
    /\ g \in svg.nodes
    /\ UNCHANGED <<text, pending, result>>
    /\ IF g.childrenCount > 0
       THEN /\ collapsed' = Toggle(collapsed, g.id)
            /\ status' = setStatus(TRUE, IF g.id \in collapsed' THEN "Collapsed" ELSE "Expanded",
                                   0, g.title)
            /\ render(currentModel, collapsed')
       ELSE UNCHANGED <<collapsed, currentModel, svg, status, layout>>

Init ==
    /\ text \in Texts
    /\ pending = FALSE
    /\ collapsed = {}
    /\ currentModel = Null
    /\ svg = clearSvg
    /\ status = setStatus(TRUE, "", 0, "")
    /\ result = Null
    /\ layout = NoLayout

Next ==
    \/ \E i \in 1..Len(Document) : Type(i)
    \/ onInput
    \/ \E g \in svg.nodes : Click(g)

Spec == Init /\ [][Next]_vars

----------------------------------------------------------------------------
(* SpecParse: onInput on every text of at most MaxLines lines over ParseLines *)

ParseIds == {"A", "1", "2", "toString"}

ParseLines ==
    {<<>>, <<"node", "A">>, <<"edge", "A", "A">>, <<"A", "->", "A">>}
        \cup {NodeLine(id) : id \in ParseIds}
        \cup {EdgeLine(from, to) : from \in ParseIds, to \in ParseIds}

ParseTexts == {t \in SeqsUpTo(ParseLines, MaxLines) : Len(t) >= 1}

\* A text was pasted or restored and its input event is pending.
InitParse ==
    /\ text \in ParseTexts
    /\ pending = TRUE
    /\ collapsed = {}
    /\ currentModel = Null
    /\ svg = clearSvg
    /\ status = setStatus(TRUE, "", 0, "")
    /\ result = Null
    /\ layout = NoLayout

NextParse == onInput

SpecParse == InitParse /\ [][NextParse]_vars

----------------------------------------------------------------------------
(* SpecLayout: the graphs of at most MaxEdges edges over LayoutIds, rendered *)
(* and then collapsed and expanded by clicks                                 *)

LayoutIds == <<"A", "B", "C", "D", "E">>

\* the number of the edge LayoutIds[i] -> LayoutIds[j] in the text's order
EdgeNumber(e) == (e[1] - 1) * Len(LayoutIds) + e[2]

RECURSIVE SubsetsUpTo(_, _)
\* the subsets of S of at most k elements
SubsetsUpTo(S, k) ==
    IF k = 0 THEN {{}}
    ELSE LET smaller == SubsetsUpTo(S, k - 1)
         IN smaller \cup {p \cup {e} : p \in smaller, e \in S}

RECURSIVE EdgeLines(_)
\* the edge lines of the set E of edges, in the order of their numbers
EdgeLines(E) ==
    IF E = {} THEN <<>>
    ELSE LET e == CHOOSE e \in E : \A f \in E : EdgeNumber(e) <= EdgeNumber(f)
         IN <<EdgeLine(LayoutIds[e[1]], LayoutIds[e[2]])>> \o EdgeLines(E \ {e})

LayoutTexts ==
    {[i \in 1..Len(LayoutIds) |-> NodeLine(LayoutIds[i])] \o EdgeLines(E) :
        E \in SubsetsUpTo((1..Len(LayoutIds)) \X (1..Len(LayoutIds)), MaxEdges)}

InitLayout ==
    /\ text \in LayoutTexts
    /\ pending = TRUE
    /\ collapsed = {}
    /\ currentModel = Null
    /\ svg = clearSvg
    /\ status = setStatus(TRUE, "", 0, "")
    /\ result = Null
    /\ layout = NoLayout

NextLayout ==
    \/ onInput
    \/ \E g \in svg.nodes : Click(g)

SpecLayout == InitLayout /\ [][NextLayout]_vars

----------------------------------------------------------------------------
(* What the specification says of a text, stated without parse *)

\* the numbers of the lines of t that are well-formed node lines
NodeLineNumbers(t) == {i \in 1..Len(t) : NodeMatch(t[i])}

\* the numbers of the lines of t that are well-formed edge lines
EdgeLineNumbers(t) == {i \in 1..Len(t) : EdgeMatch(t[i])}

\* the identifiers the node lines of t declare
Declared(t) == {t[i][2] : i \in NodeLineNumbers(t)}

\* the identifiers the node lines of t declare, in the order of their lines
DeclaredInOrder(t) ==
    LET F[i \in 0..Len(t)] ==
            IF i = 0 THEN <<>>
            ELSE IF NodeMatch(t[i]) /\ ~Contains(F[i - 1], t[i][2])
                 THEN Append(F[i - 1], t[i][2]) ELSE F[i - 1]
    IN F[Len(t)]

\* the identifiers that are the target of some edge line of t
EdgeTargets(t) == {t[i][4] : i \in EdgeLineNumbers(t)}

\* the first declared identifier that is no edge target, else the first declared
ExpectedRoot(t) ==
    LET d == DeclaredInOrder(t)
        free == SelectSeq(d, LAMBDA id : id \notin EdgeTargets(t))
    IN IF Len(free) > 0 THEN free[1] ELSE d[1]

\* the line-level error of line i of t, "" when it has none
LineError(t, i) ==
    LET line == t[i] IN
    IF Len(line) = 0 THEN ""
    ELSE IF StartsWith(line, "node") THEN
        IF ~NodeMatch(line) THEN "Bad Node Syntax"
        ELSE IF \E j \in NodeLineNumbers(t) : j < i /\ t[j][2] = line[2]
             THEN "Duplicate Node id" ELSE ""
    ELSE IF StartsWith(line, "edge") THEN
        IF ~EdgeMatch(line) THEN "Bad Edge Syntax" ELSE ""
    ELSE "Unknown Directive"

\* the edge lines of t with an endpoint that no node line declares
DanglingEdges(t) ==
    {i \in EdgeLineNumbers(t) : t[i][2] \notin Declared(t) \/ t[i][4] \notin Declared(t)}

\* The one error the precedence of the specification picks for t; a record
\* of kind "none" when t has no error.
ExpectedError(t) ==
    LET offending == {i \in 1..Len(t) : LineError(t, i) # ""} IN
    IF offending # {}
    THEN LET i == MinOf(offending)
         IN ErrorResult(i, LineError(t, i),
                        IF LineError(t, i) = "Duplicate Node id" THEN t[i][2] ELSE "")
    ELSE IF DanglingEdges(t) # {}
    THEN LET i == MinOf(DanglingEdges(t))
         IN IF t[i][2] \notin Declared(t)
            THEN ErrorResult(i, "Unknown Node", t[i][2])
            ELSE ErrorResult(i, "unknown node", t[i][4])
    ELSE IF Declared(t) = {} THEN ErrorResult(0, "No Nodes Defined", "")
    ELSE Outcome("none", 0, "", "", EmptyObject, <<>>, "")

\* parse has run on the text in the editor
Parsed == ~pending /\ result.kind # "null"

----------------------------------------------------------------------------
(* Claims about parse, under SpecParse *)

\* C4: when parse succeeds, the root is the first declared node identifier, in
\* the order of the node lines, that is the target of no edge, or the first
\* declared one when every node is a target; with no node declared parse
\* returns no model, and the 'No Nodes Defined' error when the text has no
\* other error.
C4_RootInDeclarationOrder ==
    Parsed =>
      /\ result.kind = "model" => result.root = ExpectedRoot(text)
      /\ Declared(text) = {} => result.kind # "model"
      /\ ExpectedError(text) = ErrorResult(0, "No Nodes Defined", "")
            => result = ErrorResult(0, "No Nodes Defined", "")

\* C5: parse reports exactly the error the precedence picks: the line-level
\* error of the lowest-numbered offending line; else the unknown-node error of
\* the first edge with an undeclared endpoint (its from endpoint first); else
\* 'No Nodes Defined'; and no error when none of these occurs.
C5_ErrorPrecedence ==
    Parsed =>
      IF ExpectedError(text).kind = "error"
      THEN result = ExpectedError(text)
      ELSE result.kind # "error"

\* C6: every model parse returns has the endpoints of all its edges and all
\* the children of its nodes among the identifiers its node lines declare, and
\* a text with an edge naming an undeclared identifier yields an error, not a
\* model.
C6_ReferentialIntegrity ==
    Parsed =>
      /\ result.kind = "model" =>
           /\ Range(result.nodes.keys) = Declared(text)
           /\ \A i \in 1..Len(result.edges) :
                 result.edges[i].from \in Declared(text) /\ result.edges[i].to \in Declared(text)
           /\ \A i \in 1..Len(result.nodes.val) :
                 Range(result.nodes.val[i].children) \subseteq Declared(text)
      /\ DanglingEdges(text) # {} => result.kind # "model"

----------------------------------------------------------------------------
(* What the specification says of a model, stated on its edge list *)

EdgeSet(model) == {<<model.edges[i].from, model.edges[i].to>> : i \in 1..Len(model.edges)}

RECURSIVE Closure(_, _)
\* the identifiers reached from those of S along the pairs of E
Closure(E, S) ==
    LET more == S \cup {e[2] : e \in {f \in E : f[1] \in S}}
    IN IF more = S THEN S ELSE Closure(E, more)

ChildSet(model, id) == {e[2] : e \in {f \in EdgeSet(model) : f[1] = id}}

\* children, grandchildren, and so on
Descendants(model, id) == Closure(EdgeSet(model), ChildSet(model, id))

Ancestors(model, id) == {a \in Range(model.nodes.keys) : id \in Descendants(model, a)}

\* every node is the target of at most one edge and no edges form a cycle
IsTree(model) ==
    /\ \A i, j \in 1..Len(model.edges) : model.edges[i].to = model.edges[j].to => i = j
    /\ \A id \in Range(model.nodes.keys) : id \notin Descendants(model, id)

\* the children of id that a collapse set leaves visible
VisibleChildSet(model, coll, id) == IF id \in coll THEN {} ELSE ChildSet(model, id)

\* layoutTree returned a coordinate map for the current model and collapse set
LaidOut == currentModel.kind = "model" /\ layout.kind = "ok"

\* x divided by NODE_W + X_GAP, in units of 1/SlotUnit
Slot(id) == layout.coords[id].x \div (NODE_W + X_GAP)

\* y divided by NODE_H + Y_GAP
Depth(id) == layout.coords[id].y \div (NODE_H + Y_GAP)

Leaves == {id \in layout.vis : VisibleChildSet(currentModel, collapsed, id) = {}}

----------------------------------------------------------------------------
(* Claims about layoutTree, under SpecLayout *)

\* C1: for every model parse returns and every collapse set, layoutTree
\* terminates and returns a coordinate map, also for a model with a node that
\* several edges target, a self-edge or a cycle of nodes not collapsed.
C1_LayoutIsTotal ==
    currentModel.kind = "model" =>
        layout.kind = "ok" /\ DOMAIN layout.coords = layout.vis

\* C2 as stated: for any model and any node of it with a child whose id is in
\* the collapse set, the visible set and the coordinate map hold none of the
\* node's descendants and do hold the node itself.
C2_AnyModel ==
    LaidOut =>
      \A n \in collapsed :
        ChildSet(currentModel, n) # {} =>
          /\ Descendants(currentModel, n) \cap layout.vis = {}
          /\ Descendants(currentModel, n) \cap DOMAIN layout.coords = {}
          /\ n \in layout.vis /\ n \in DOMAIN layout.coords

\* C2 amended: for a model in which every node is the target of at most one
\* edge and no edges form a cycle, and any node of it with a child whose id is
\* in the collapse set, the visible set and the coordinate map hold none of
\* the node's descendants, and hold the node itself exactly when the root
\* reaches it and none of its ancestors is in the collapse set.
C2_CollapseHidesDescendants ==
    (LaidOut /\ IsTree(currentModel)) =>
      \A n \in collapsed :
        ChildSet(currentModel, n) # {} =>
          /\ Descendants(currentModel, n) \cap layout.vis = {}
          /\ Descendants(currentModel, n) \cap DOMAIN layout.coords = {}
          /\ (n \in layout.vis /\ n \in DOMAIN layout.coords)
               <=> /\ n \in {currentModel.root} \cup Descendants(currentModel, currentModel.root)
                   /\ Ancestors(currentModel, n) \cap collapsed = {}

\* a collapsed visible node of a tree hides a child and a grandchild
C2_Witness ==
    /\ LaidOut /\ IsTree(currentModel)
    /\ \E n \in collapsed \cap layout.vis :
         /\ n # currentModel.root
         /\ \E c \in ChildSet(currentModel, n) : ChildSet(currentModel, c) # {}

\* the slot of every visible node with a visible child is the midpoint of the
\* least and the greatest final slot of its visible children, and the slot of
\* every other visible node is a whole number of the leaf counter
MidpointRule ==
    \A id \in layout.vis :
      LET kids == VisibleChildSet(currentModel, collapsed, id) IN
      /\ layout.coords[id].x % (NODE_W + X_GAP) = 0
      /\ IF kids # {}
         THEN 2 * Slot(id) = MinOf({Slot(k) : k \in kids}) + MaxOf({Slot(k) : k \in kids})
         ELSE Slot(id) % SlotUnit = 0 /\ Slot(id) \div SlotUnit \in 0..(Cardinality(Leaves) - 1)

\* C3 as stated: the midpoint rule holds in the result of layoutTree for every
\* model parse can return and every collapse set.
C3_AnyModel == LaidOut => MidpointRule

\* C3 amended: the midpoint rule holds in the result of layoutTree for every
\* model in which every node is the target of at most one edge and no edges
\* form a cycle, and every collapse set.
C3_MidpointOfOutermostChildren == (LaidOut /\ IsTree(currentModel)) => MidpointRule

\* a parent centred between two slots under a parent that is centred so too
C3_Witness ==
    /\ LaidOut /\ IsTree(currentModel)
    /\ \E id \in layout.vis :
         /\ Cardinality(VisibleChildSet(currentModel, collapsed, id)) >= 2
         /\ Slot(id) % SlotUnit # 0
         /\ \E p \in layout.vis : id \in VisibleChildSet(currentModel, collapsed, p)
                                   /\ Slot(p) % SlotUnit # 0

\* C10: in a model in which every node is the target of at most one edge and
\* no edges form a cycle, two distinct visible nodes of the same depth have
\* slots at least 1 apart, and the visible nodes without visible children
\* occupy exactly the slots 0 .. L-1, each once.
C10_NoOverlap ==
    (LaidOut /\ IsTree(currentModel)) =>
      /\ \A a, b \in layout.vis :
           (a # b /\ Depth(a) = Depth(b)) =>
              (Slot(a) - Slot(b) >= SlotUnit \/ Slot(b) - Slot(a) >= SlotUnit)
      /\ {Slot(id) : id \in Leaves} = {k * SlotUnit : k \in 0..(Cardinality(Leaves) - 1)}
      /\ \A a, b \in Leaves : Slot(a) = Slot(b) => a = b

\* two parents of the same depth, each centred over its own children
C10_Witness ==
    /\ LaidOut /\ IsTree(currentModel)
    /\ \E a, b \in layout.vis \ Leaves :
         a # b /\ Depth(a) = Depth(b) /\ Cardinality(Leaves) >= 2

----------------------------------------------------------------------------
(* Claims about the handlers, under Spec *)

\* a step of onInput
ParseCycle == pending /\ ~pending'

\* a step of the click listener that changes the collapse set
ToggleStep == pending' = pending /\ collapsed' # collapsed

\* C7 as stated: once a parse cycle has completed, the collapse set holds
\* exactly the previously collapsed identifiers that the text declares.
C7_AfterEveryParseCycle ==
    [][ParseCycle => collapsed' = collapsed \cap Declared(text)]_vars

\* C7 amended: once a parse cycle that returned a model has completed, the
\* collapse set holds no identifier the text no longer declares and still
\* holds every previously collapsed identifier the text declares.
C7_PrunedAfterSuccessfulParse ==
    [][(ParseCycle /\ result'.kind = "model")
          => collapsed' = collapsed \cap Declared(text)]_vars

\* a successful parse cycle has just completed and a collapsed identifier
\* outlived it, in a text that declares others as well
C7_Witness ==
    /\ ~pending /\ result.kind = "model" /\ status.msg = "Parsed Nodes"
    /\ collapsed # {} /\ collapsed # Declared(text)
    /\ collapsed \subseteq Declared(text)

\* C8: a step of the click listener either changes nothing (a node without
\* children) or flips exactly the clicked identifier, of a drawn node with a
\* child, leaves the current model alone and ends with the current model laid
\* out and drawn under the new collapse set.
C8_ToggleThenRender ==
    [][/\ ToggleStep =>
            /\ \E g \in svg.nodes :
                  /\ ChildSet(currentModel, g.id) # {}
                  /\ collapsed' = IF g.id \in collapsed
                                  THEN collapsed \ {g.id} ELSE collapsed \cup {g.id}
            /\ currentModel' = currentModel
            /\ layout'.kind = "ok"
            /\ {n.id : n \in svg'.nodes} =
                  Closure({e \in EdgeSet(currentModel) : e[1] \notin collapsed'},
                          {currentModel.root})
       /\ (pending' = pending /\ text' = text /\ collapsed' = collapsed)
            => (svg' = svg /\ currentModel' = currentModel)
      ]_vars

\* C9: while the most recent parse cycle is one that returned an error, the
\* drawing surface is empty and the status shows that error; the failing
\* cycle changes neither the collapse set nor the current model.
C9_ErrorClearsDiagram ==
    /\ [](result.kind = "error" =>
            /\ svg.nodes = {} /\ svg.paths = {}
            /\ ~status.ok /\ status.msg = result.msg
            /\ status.num = result.line /\ status.arg = result.id)
    /\ [][(ParseCycle /\ result'.kind = "error")
            => (collapsed' = collapsed /\ currentModel' = currentModel)]_vars

\* a parse cycle failed after a diagram with a collapsed node had been drawn
C9_Witness ==
    /\ result.kind = "error" /\ ~pending
    /\ currentModel.kind = "model" /\ collapsed # {}
    /\ layout.kind = "ok" /\ Cardinality(layout.vis) >= 2

====
